---- MODULE Spec2Model ----
(***************************************************************************)
(* A model of the MUFAP report pipeline:                                   *)
(*   process_financial_data.py  header location, format classification,    *)
(*                              normalisation, schema union and loading    *)
(*   app.py / viewer_app.py     display-column resolution and the          *)
(*                              DataTables query endpoint                  *)
(*                                                                         *)
(* Text is modelled as TLA+ strings handled character by character, so     *)
(* that str.strip(), str.title(), str.lower(), sorted() and LIKE are       *)
(* computed the way Python and SQLite compute them.  Four characters       *)
(* outside ASCII are written with ASCII stand-ins:                         *)
(*     "{"  U+00BB  (right guillemet)     "|"  U+00BF (inverted ?)         *)
(*     "]"  U+00CF  (capital I diaeresis) "}"  U+00EF (small i diaeresis)  *)
(*     "~"  U+FEFF  (byte order mark)                                      *)
(* so the literal 'U+00EF U+00BB U+00BF' of app.py:50 is written "}{|".    *)
(***************************************************************************)
EXTENDS Integers, Sequences, FiniteSets, TLC

VARIABLES
    file,       \* header scan: the raw file under scan
    found,      \* header scan: result of find_header_and_type
    live,       \* resolver: PRAGMA table_info column list of one table
    rtype,      \* resolver / query: the report type of the request
    shown,      \* resolver: result of app.py get_display_columns
    shownOld,   \* resolver: result of viewer_app.py get_clean_ordered_data
    table,      \* query: the table the request reads
    req,        \* query: the form of the last request
    resp,       \* query: the response to the last request
    pc,         \* ingestion: position of main()
    metadata_db,         \* ingestion: mufap_data.db, the provenance store
    all_files,  \* ingestion: the files globbed from DIRECTORIES_TO_SCAN
    idx,        \* ingestion: number of files the phase-1 loop has finished
    metadata_cache,      \* ingestion: filename -> report date
    pkfrv_data_to_load,  \* ingestion: staged data frames
    all_pkfrv_columns,   \* ingestion: union of staged column names
    db,         \* ingestion: financial_data.db (its tables)
    loaded,     \* ingestion: number of staged frames phase 2 has appended
    first_result,        \* ingestion: the store as the first ended run left it
    prev_end,   \* ingestion: how the run before this one stopped
    db_before,  \* ingestion: the store a run without input files found (NoDb otherwise)
    disk,       \* download: the regular files of the file system
    wanted,     \* download: the filepath of the request
    sent,       \* download: the answer of app.py download_file
    sentOld,    \* download: the answer of viewer_app.py download_file
    mufap_reports,  \* scraper: the rows of mufap_reports in mufap_data.db
    saved,      \* scraper: the save paths that exist on disk
    reports,    \* scraper: the `data` list of the API response of this run
    tasks,      \* scraper: where each gathered process_single_report stands
    running,    \* scraper: the task inside a stretch without await (0: none)
    attempted,  \* scraper: the downloads requested so far (run, FilePath)
    runs        \* scraper: the number of scraper runs started

vars == <<file, found, live, rtype, shown, shownOld, table, req, resp, pc,
          metadata_db, all_files, idx, metadata_cache, pkfrv_data_to_load,
          all_pkfrv_columns, db, loaded, first_result, prev_end, db_before,
          disk, wanted, sent, sentOld,
          mufap_reports, saved, reports, tasks, running, attempted, runs>>

headerVars   == <<file, found>>
resolverVars == <<live, shown, shownOld>>
queryVars    == <<table, req, resp>>
downloadVars == <<disk, wanted, sent, sentOld>>
scraperVars  == <<mufap_reports, saved, reports, tasks, running, attempted, runs>>
ingestVars   == <<pc, metadata_db, all_files, idx, metadata_cache, pkfrv_data_to_load,
                  all_pkfrv_columns, db, loaded, first_result, prev_end,
                  db_before>>

(***************************************************************************)
(* Characters and strings                                                  *)
(***************************************************************************)
Ch(s, i) == SubSeq(s, i, i)

UPPERCASE == "ABCDEFGHIJKLMNOPQRSTUVWXYZ]"
LOWERCASE == "abcdefghijklmnopqrstuvwxyz}"

\* The printable ASCII characters from code 32 (blank) to 122 (z), in code
\* order.  The places of the double quote (34), the apostrophe (39), the
\* backslash (92) and the backquote (96), which no text of the model holds,
\* are filled with stand-ins, which Ord and Chr treat before looking here.
ASCII == " !{#$%&|()*+,-./0123456789:;<=>?@ABCDEFGHIJKLMNOPQRSTUVWXYZ[}]^_~abcdefghijklmnopqrstuvwxyz"

PosIn(c, alphabet) ==
    IF \E i \in 1..Len(alphabet) : Ch(alphabet, i) = c
    THEN CHOOSE i \in 1..Len(alphabet) : Ch(alphabet, i) = c
    ELSE 0

Characters == {Ch(ASCII, i) : i \in 1..Len(ASCII)}

\* ord(c), tabulated
OrdTable ==
    [c \in Characters |->
        CASE c = "{" -> 187
          [] c = "|" -> 191
          [] c = "]" -> 207
          [] c = "}" -> 239
          [] c = "~" -> 65279
          [] OTHER   -> 31 + PosIn(c, ASCII)]

Ord(c) == OrdTable[c]

\* chr(n), "?" standing for every character outside the model's alphabet
Chr(n) ==
    CASE n = 187   -> "{"
      [] n = 191   -> "|"
      [] n = 207   -> "]"
      [] n = 239   -> "}"
      [] n = 65279 -> "~"
      [] OTHER     -> IF n \in 32..122 /\ n \notin {34, 39, 92, 93, 96}
                      THEN Ch(ASCII, n - 31) ELSE "?"

\* c.lower() and c.upper() of one character, tabulated
LowerTable ==
    [c \in Characters |->
        IF PosIn(c, UPPERCASE) > 0 THEN Ch(LOWERCASE, PosIn(c, UPPERCASE)) ELSE c]
UpperTable ==
    [c \in Characters |->
        IF PosIn(c, LOWERCASE) > 0 THEN Ch(UPPERCASE, PosIn(c, LOWERCASE)) ELSE c]

LowerCh(c) == LowerTable[c]
UpperCh(c) == UpperTable[c]
IsCased(c) == LowerTable[c] # c \/ UpperTable[c] # c

\* str.lower()
RECURSIVE lower(_)
lower(s) == IF s = "" THEN "" ELSE LowerCh(Ch(s, 1)) \o lower(SubSeq(s, 2, Len(s)))

\* str.upper()
RECURSIVE upper(_)
upper(s) == IF s = "" THEN "" ELSE UpperCh(Ch(s, 1)) \o upper(SubSeq(s, 2, Len(s)))

\* str.title(): a cased character is upper-cased when the character before
\* it is uncased (or it is the first), lower-cased otherwise.
RECURSIVE TitleFrom(_, _)
TitleFrom(s, prevCased) ==
    IF s = "" THEN ""
    ELSE LET c == Ch(s, 1)
         IN  (IF prevCased THEN LowerCh(c) ELSE UpperCh(c))
             \o TitleFrom(SubSeq(s, 2, Len(s)), IsCased(c))

title(s) == TitleFrom(s, FALSE)

\* str.strip(): leading and trailing blanks removed.
RECURSIVE lstrip(_)
lstrip(s) == IF s # "" /\ Ch(s, 1) = " " THEN lstrip(SubSeq(s, 2, Len(s))) ELSE s

RECURSIVE rstrip(_)
rstrip(s) ==
    IF s # "" /\ Ch(s, Len(s)) = " " THEN rstrip(SubSeq(s, 1, Len(s) - 1)) ELSE s

strip(s) == rstrip(lstrip(s))

\* Python's str < str: code point order, a proper prefix first.
RECURSIVE StrLess(_, _)
StrLess(a, b) ==
    IF b = "" THEN FALSE
    ELSE IF a = "" THEN TRUE
    ELSE IF Ch(a, 1) = Ch(b, 1)
         THEN StrLess(SubSeq(a, 2, Len(a)), SubSeq(b, 2, Len(b)))
         ELSE Ord(Ch(a, 1)) < Ord(Ch(b, 1))

\* `needle in s`
Contains(s, needle) ==
    \E i \in 1..(Len(s) - Len(needle) + 1) :
        SubSeq(s, i, i + Len(needle) - 1) = needle

\* sorted(): insertion of each element at its place in code point order.
RECURSIVE InsertSorted(_, _)
InsertSorted(x, seq) ==
    IF seq = << >> THEN <<x>>
    ELSE IF StrLess(Head(seq), x) THEN <<Head(seq)>> \o InsertSorted(x, Tail(seq))
    ELSE <<x>> \o seq

RECURSIVE sorted(_)
sorted(seq) == IF seq = << >> THEN << >> ELSE InsertSorted(Head(seq), sorted(Tail(seq)))

\* list(a_set): some enumeration of the set, which sorted() then orders.
RECURSIVE SetToSeq(_)
SetToSeq(S) ==
    IF S = {} THEN << >>
    ELSE LET x == CHOOSE y \in S : TRUE IN <<x>> \o SetToSeq(S \ {x})

Range(seq) == {seq[i] : i \in 1..Len(seq)}

\* All sequences over S of length lo..hi.
SeqsOf(S, lo, hi) == UNION {[1..n -> S] : n \in lo..hi}

(***************************************************************************)
(* Raw files.  A file is a path, the text encoding it was saved in and its *)
(* lines; a line is the sequence of its delimited fields and << >> is a    *)
(* blank line.  All non-blank lines of a file have the same number of      *)
(* fields and the first field of the first line is such that the sniffer   *)
(* (sep=None) finds the comma.                                             *)
(***************************************************************************)
MAX_HEADER_SCAN_ROWS == 15

PKFRV_CORE_COLUMNS == {"Issue Date", "Maturity date", "Coupon Frequency"}
PKRV_EXACT_COLUMNS == {"Tenor", "Mid Rate", "Change"}

ENCODINGS == {"utf-8", "latin1", "cp1252"}

\* str.encode(enc) of one character
EncodeCh(c, enc) ==
    LET n == Ord(c)
    IN  IF n < 128 THEN <<n>>
        ELSE IF enc = "utf-8"
             THEN IF n < 2048
                  THEN <<192 + (n \div 64), 128 + (n % 64)>>
                  ELSE <<224 + (n \div 4096), 128 + ((n \div 64) % 64), 128 + (n % 64)>>
             ELSE <<n % 256>>

RECURSIVE Encode(_, _)
Encode(s, enc) ==
    IF s = "" THEN << >> ELSE EncodeCh(Ch(s, 1), enc) \o Encode(SubSeq(s, 2, Len(s)), enc)

IsCont(b) == b \in 128..191

\* bytes.decode('utf-8'), strict: FALSE in ok is UnicodeDecodeError
RECURSIVE DecodeUtf8(_)
DecodeUtf8(bs) ==
    IF bs = << >> THEN [ok |-> TRUE, text |-> ""]
    ELSE LET b == bs[1]
             n == IF b < 128 THEN 1
                  ELSE IF b \in 194..223 THEN 2
                  ELSE IF b \in 224..239 THEN 3
                  ELSE 0
         IN  IF n = 0 \/ Len(bs) < n \/ \E i \in 2..n : ~IsCont(bs[i])
             THEN [ok |-> FALSE, text |-> ""]
             ELSE LET cp == IF n = 1 THEN b
                            ELSE IF n = 2 THEN (b - 192) * 64 + (bs[2] - 128)
                            ELSE (b - 224) * 4096 + (bs[2] - 128) * 64 + (bs[3] - 128)
                      rest == DecodeUtf8(SubSeq(bs, n + 1, Len(bs)))
                  IN  [ok |-> rest.ok, text |-> Chr(cp) \o rest.text]

\* Path(filepath).suffix.lower()
RECURSIVE SuffixFrom(_, _)
SuffixFrom(p, i) ==
    IF i < 1 \/ Ch(p, i) = "/" THEN ""
    ELSE IF Ch(p, i) = "." THEN SubSeq(p, i, Len(p))
    ELSE SuffixFrom(p, i - 1)

suffix(filepath) == lower(SuffixFrom(filepath, Len(filepath)))

\* os.path.basename
RECURSIVE BasenameFrom(_, _)
BasenameFrom(p, i) ==
    IF i < 1 THEN p
    ELSE IF Ch(p, i) = "/" THEN SubSeq(p, i + 1, Len(p))
    ELSE BasenameFrom(p, i - 1)

basename(filepath) == BasenameFrom(filepath, Len(filepath))

ParseError == [ok |-> FALSE, rows |-> << >>]

\* The text of the lines as the utf-8 reader sees them
DecodedLines(f) ==
    [i \in 1..Len(f.rows) |->
        [j \in 1..Len(f.rows[i]) |-> DecodeUtf8(Encode(f.rows[i][j], f.enc))]]

DropBlank(lines) == SelectSeq(lines, LAMBDA r : r # << >>)

FirstN(seq, n) == SubSeq(seq, 1, IF Len(seq) < n THEN Len(seq) ELSE n)

\* pd.read_csv(filepath, sep=None, engine='python', skiprows=skiprows): the
\* lines the parser yields (header line included).  The file is opened as
\* utf-8; the first line after the skipped ones goes to csv.Sniffer, which
\* raises on a blank line; blank lines after it are skipped.
csv_lines(f, skiprows) ==
    LET d == DecodedLines(f)
    IN  IF \E i \in 1..Len(d) : \E j \in 1..Len(d[i]) : ~d[i][j].ok
        THEN ParseError
        ELSE IF Len(d) <= skiprows THEN ParseError      \* EmptyDataError
        ELSE IF d[skiprows + 1] = << >> THEN ParseError \* csv.Error from sniff
        ELSE [ok   |-> TRUE,
              rows |-> DropBlank([i \in 1..(Len(d) - skiprows) |->
                         [j \in 1..Len(d[i + skiprows]) |-> d[i + skiprows][j].text]])]

\* pd.read_excel(filepath, engine='openpyxl', skiprows=skiprows): the sheet's
\* rows; a blank row is a row of empty cells, it is not skipped.
excel_lines(f, skiprows) ==
    IF Len(f.rows) <= skiprows THEN [ok |-> TRUE, rows |-> << >>]
    ELSE [ok |-> TRUE, rows |-> SubSeq(f.rows, skiprows + 1, Len(f.rows))]

\* The preview frame of find_header_and_type (header=None, nrows=15)
read_preview(f) ==
    LET ext == suffix(f.path)
    IN  IF ext = ".csv"
        THEN LET r == csv_lines(f, 0)
             IN  [ok |-> r.ok, rows |-> FirstN(r.rows, MAX_HEADER_SCAN_ROWS)]
        ELSE IF ext \in {".xlsx", ".xls"}
        THEN LET r == excel_lines(f, 0)
             IN  [ok |-> r.ok, rows |-> FirstN(r.rows, MAX_HEADER_SCAN_ROWS)]
        ELSE ParseError

\* row.dropna(): an empty field is NaN
dropna(row) == SelectSeq(row, LAMBDA c : c # "")

\* {col.title() for col in [str(col).strip() for col in row.dropna()]}
potential_header_set(row) == {title(strip(c)) : c \in Range(dropna(row))}

pkfrv_core_titlecase == {title(col) : col \in PKFRV_CORE_COLUMNS}
pkrv_exact_titlecase == {title(col) : col \in PKRV_EXACT_COLUMNS}

NoType == "None"
NotFound == [index |-> -1, type |-> NoType]

\* A classifier that tests the PKFRV subset first and accepts a superset of
\* the PKRV columns
classify_subset_first(header_set) ==
    IF pkfrv_core_titlecase \subseteq header_set THEN "PKFRV"
    ELSE IF pkrv_exact_titlecase \subseteq header_set THEN "PKRV"
    ELSE NoType

\* The two tests of the loop body, in the order of the code
classify(header_set) ==
    IF header_set = pkrv_exact_titlecase THEN "PKRV"
    ELSE IF pkfrv_core_titlecase \subseteq header_set THEN "PKFRV"
    ELSE NoType

\* for i, row in df_preview.iterrows(): the first row that classifies
RECURSIVE scan_rows(_, _)
scan_rows(rows, i) ==
    IF i > Len(rows) THEN NotFound
    ELSE LET t == classify(potential_header_set(rows[i]))
         IN  IF t # NoType THEN [index |-> i - 1, type |-> t]
             ELSE scan_rows(rows, i + 1)

find_header_and_type(f) ==
    LET p == read_preview(f)
    IN  IF ~p.ok THEN NotFound ELSE scan_rows(p.rows, 1)

(***************************************************************************)
(* Column presentation: app.py get_table_config / get_display_columns and  *)
(* the ordering inside viewer_app.py get_clean_ordered_data                *)
(***************************************************************************)
PKFRV_fixed_order == <<"Report_Date", "Issue Date", "Maturity Date", "Coupon Frequency">>
PKRV_fixed_order  == <<"report_date", "Tenor", "Mid Rate", "Change">>

get_table_config(report_type) ==
    IF upper(report_type) = "PKFRV"
    THEN [ok |-> TRUE, table_name |-> "mutual_fund_data", fixed_order |-> PKFRV_fixed_order]
    ELSE IF upper(report_type) = "PKRV"
    THEN [ok |-> TRUE, table_name |-> "tenor_rates", fixed_order |-> PKRV_fixed_order]
    ELSE [ok |-> FALSE, table_name |-> "", fixed_order |-> << >>]   \* HTTPException 404

\* app.py:50-52
\* An exclusion set without the 'unnamed' columns
cols_to_exclude_fixed_only(all_db_cols) ==
    {"unique_id", "Source_Filepath", "source_filepath", "}{|"}

cols_to_exclude(all_db_cols) ==
    {"unique_id", "Source_Filepath", "source_filepath", "}{|"}
    \cup {col \in Range(all_db_cols) : Contains(lower(col), "unnamed")}

\* db_cols_lower[key] of {c.lower(): c for c in all_db_cols}: the last wins
db_cols_lower(all_db_cols, key) ==
    LET hits == {i \in 1..Len(all_db_cols) : lower(all_db_cols[i]) = key}
    IN  all_db_cols[CHOOSE i \in hits : \A j \in hits : j <= i]

\* app.py:60-65, the loop over fixed_order
RECURSIVE add_fixed_order(_, _, _, _)
add_fixed_order(all_db_cols, fixed_order, i, final_ordered_cols) ==
    IF i > Len(fixed_order) THEN final_ordered_cols
    ELSE LET key == lower(fixed_order[i])
         IN  IF \E c \in Range(all_db_cols) : lower(c) = key
             THEN LET actual_col == db_cols_lower(all_db_cols, key)
                  IN  IF actual_col \notin cols_to_exclude(all_db_cols)
                      THEN add_fixed_order(all_db_cols, fixed_order, i + 1,
                                           Append(final_ordered_cols, actual_col))
                      ELSE add_fixed_order(all_db_cols, fixed_order, i + 1,
                                           final_ordered_cols)
             ELSE add_fixed_order(all_db_cols, fixed_order, i + 1, final_ordered_cols)

\* The remaining columns left in table order
remaining_cols_unsorted(data_cols, final_ordered_cols) ==
    SelectSeq(data_cols, LAMBDA col : col \notin Range(final_ordered_cols))

\* app.py:68, sorted([col for col in data_cols if col not in final_ordered_cols])
remaining_cols(data_cols, final_ordered_cols) ==
    sorted(SelectSeq(data_cols, LAMBDA col : col \notin Range(final_ordered_cols)))

get_display_columns(all_db_cols, fixed_order) ==
    LET data_cols == SelectSeq(all_db_cols,
                               LAMBDA col : col \notin cols_to_exclude(all_db_cols))
        final_ordered_cols == add_fixed_order(all_db_cols, fixed_order, 1, << >>)
    IN  final_ordered_cols \o remaining_cols(data_cols, final_ordered_cols)

\* viewer_app.py:143-146
viewer_cols_to_exclude(columns) ==
    {"unique_id", "Source_Filepath", "source_filepath", "Report_Date", "report_date", "~"}
    \cup {col \in Range(columns) : Contains(lower(col), "unnamed")}

\* viewer_app.py:139-159: ok = FALSE is the KeyError of line 139
viewer_ordered_cols(columns, fixed_order) ==
    IF "Source_Filepath" \notin Range(columns) /\ "source_filepath" \notin Range(columns)
    THEN [ok |-> FALSE, cols |-> << >>]
    ELSE LET data_cols == SelectSeq(columns,
                              LAMBDA col : col \notin viewer_cols_to_exclude(columns))
             final_ordered_cols == SelectSeq(fixed_order,
                                             LAMBDA col : col \in Range(columns))
         IN  [ok   |-> TRUE,
              cols |-> final_ordered_cols \o remaining_cols(data_cols, final_ordered_cols)]

(***************************************************************************)
(* Stored values and the SQL the query endpoint issues                     *)
(***************************************************************************)
\* A stored value: NULL, a number (n its value, s its text form under
\* CAST(.. AS TEXT)) or a text.
NULL    == [k |-> "null", n |-> 0, s |-> ""]
Num(n, s) == [k |-> "num", n |-> n, s |-> s]
Text(s) == [k |-> "text", n |-> 0, s |-> s]

\* SQLite's pattern LIKE text: % is any run, _ any one character, letters
\* compare without case.
RECURSIVE like(_, _)
like(pattern, text) ==
    IF pattern = "" THEN text = ""
    ELSE LET p    == Ch(pattern, 1)
             rest == SubSeq(pattern, 2, Len(pattern))
         IN  IF p = "%"
             THEN \E i \in 1..(Len(text) + 1) : like(rest, SubSeq(text, i, Len(text)))
             ELSE /\ text # ""
                  /\ (p = "_" \/ LowerCh(p) = LowerCh(Ch(text, 1)))
                  /\ like(rest, SubSeq(text, 2, Len(text)))

\* CAST("col" AS TEXT) LIKE ?   (NULL LIKE ? is not true)
cast_like(v, pattern) == v.k # "null" /\ like(pattern, v.s)

\* ORDER BY ... ASC: NULL first, then numbers by value, then text by bytes
Rank(v) == CASE v.k = "null" -> 0 [] v.k = "num" -> 1 [] OTHER -> 2

ValueLess(a, b) ==
    IF Rank(a) # Rank(b) THEN Rank(a) < Rank(b)
    ELSE IF a.k = "num" THEN a.n < b.n
    ELSE IF a.k = "text" THEN StrLess(a.s, b.s)
    ELSE FALSE

ColumnIndex(cols, name) == CHOOSE i \in 1..Len(cols) : cols[i] = name

\* Rows in ORDER BY "sort_column" order; rows that compare equal stay in
\* table order.
RECURSIVE InsertRow(_, _, _, _)
InsertRow(r, rows, c, desc) ==
    IF rows = << >> THEN <<r>>
    ELSE LET before == IF desc THEN ValueLess(Head(rows)[c], r[c])
                       ELSE ValueLess(r[c], Head(rows)[c])
         IN  IF before THEN <<r>> \o rows
             ELSE <<Head(rows)>> \o InsertRow(r, Tail(rows), c, desc)

RECURSIVE order_by(_, _, _)
order_by(rows, c, desc) ==
    IF rows = << >> THEN << >>
    ELSE InsertRow(rows[Len(rows)], order_by(SubSeq(rows, 1, Len(rows) - 1), c, desc),
                   c, desc)

\* LIMIT length OFFSET start: a negative LIMIT is no limit, a negative
\* OFFSET is 0
\* A page that ignores OFFSET
limit_only(rows, length, start) ==
    SubSeq(rows, 1, IF length < 0 \/ length > Len(rows) THEN Len(rows) ELSE length)

limit_offset(rows, length, start) ==
    LET off  == IF start < 0 THEN 0 ELSE start
        last == IF length < 0 \/ off + length > Len(rows) THEN Len(rows)
                ELSE off + length
    IN  SubSeq(rows, off + 1, last)

(***************************************************************************)
(* app.py get_report_data_api                                              *)
(***************************************************************************)
ABSENT == "<absent>"     \* the form does not carry the field

DIGITS == "0123456789"

RECURSIVE DigitsValue(_, _)
DigitsValue(s, acc) ==
    IF s = "" THEN acc
    ELSE DigitsValue(SubSeq(s, 2, Len(s)), 10 * acc + (PosIn(Ch(s, 1), DIGITS) - 1))

\* int(text): blanks stripped, an optional sign, then digits; ok = FALSE is
\* ValueError
int(text) ==
    LET t      == strip(text)
        signed == t # "" /\ Ch(t, 1) \in {"+", "-"}
        digits == IF signed THEN SubSeq(t, 2, Len(t)) ELSE t
        ok     == digits # "" /\ \A i \in 1..Len(digits) : PosIn(Ch(digits, i), DIGITS) > 0
    IN  IF ~ok THEN [ok |-> FALSE, val |-> 0]
        ELSE [ok  |-> TRUE,
              val |-> IF signed /\ Ch(t, 1) = "-" THEN 0 - DigitsValue(digits, 0)
                      ELSE DigitsValue(digits, 0)]

\* int(form_data.get(key, default))
int_field(field, default) ==
    IF field = ABSENT THEN [ok |-> TRUE, val |-> default] ELSE int(field)

Failure(status) ==
    [status |-> status, draw |-> 0, recordsTotal |-> 0, recordsFiltered |-> 0,
     data |-> << >>, sort_column |-> "", order_dir |-> ""]

\* app.py:138-142; ok = FALSE is IndexError, col = "" stands for None too,
\* which `not sort_column` treats alike
pick_sort_column(display_cols, order_column_index) ==
    IF order_column_index < Len(display_cols)
    THEN IF order_column_index >= 0
         THEN [ok |-> TRUE, col |-> display_cols[order_column_index + 1]]
         ELSE IF order_column_index >= 0 - Len(display_cols)
         THEN [ok |-> TRUE, col |-> display_cols[Len(display_cols) + order_column_index + 1]]
         ELSE [ok |-> FALSE, col |-> ""]
    ELSE [ok |-> TRUE, col |-> IF display_cols # << >> THEN display_cols[1] ELSE ""]

\* app.py:153-157
find_source_filepath_col(all_db_cols) ==
    LET hits == {i \in 1..Len(all_db_cols) :
                    lower(all_db_cols[i]) \in {"source_filepath", "source filepath"}}
    IN  IF hits = {} THEN ""
        ELSE all_db_cols[CHOOSE i \in hits : \A j \in hits : i <= j]

\* app.py:171-184
\* A count of the matching cells instead of the matching rows
count_filtered_cells(t, display_cols, search_value) ==
    IF search_value # ""
    THEN Cardinality({p \in (1..Len(t.rows)) \X Range(display_cols) :
            cast_like(t.rows[p[1]][ColumnIndex(t.cols, p[2])],
                      "%" \o search_value \o "%")})
    ELSE Len(t.rows)

count_filtered(t, display_cols, search_value) ==
    IF search_value # ""
    THEN Cardinality({i \in 1..Len(t.rows) :
            \E c \in Range(display_cols) :
                cast_like(t.rows[i][ColumnIndex(t.cols, c)], "%" \o search_value \o "%")})
    ELSE Len(t.rows)

\* The whole handler: t is the table get_table_config names, as PRAGMA
\* table_info and the SELECTs see it.  Every exception ends in the handler's
\* `except Exception`, which answers 500.
get_report_data_api(t, report_type, form) ==
    LET draw   == int_field(form.draw, 1)
        start  == int_field(form.start, 0)
        length == int_field(form.length, 100)
        search_value == IF form.search = ABSENT THEN "" ELSE strip(form.search)
        order_column_index == int_field(form.column, 0)
        order_dir == IF form.dir = ABSENT THEN "asc" ELSE form.dir
        config == get_table_config(report_type)
        all_db_cols  == IF t.exists THEN t.cols ELSE << >>
        display_cols == get_display_columns(all_db_cols, config.fixed_order)
        sort         == pick_sort_column(display_cols, order_column_index.val)
        source_filepath_col == find_source_filepath_col(all_db_cols)
        Matches(row) == \E c \in Range(display_cols) :
                            cast_like(row[ColumnIndex(t.cols, c)],
                                      "%" \o search_value \o "%")
        selected == IF search_value # "" THEN SelectSeq(t.rows, Matches) ELSE t.rows
        ordered  == order_by(selected, ColumnIndex(t.cols, sort.col),
                             upper(order_dir) = "DESC")
        page     == limit_offset(ordered, length.val, start.val)
    IN  IF ~draw.ok \/ ~start.ok \/ ~length.ok \/ ~order_column_index.ok
        THEN Failure(500)                                    \* ValueError of int()
        ELSE IF ~config.ok THEN Failure(500)                 \* the 404 is caught and becomes 500
        ELSE IF ~sort.ok \/ sort.col = "" THEN Failure(500)  \* IndexError / ValueError
        ELSE IF source_filepath_col = "" THEN Failure(500)   \* ValueError
        ELSE IF upper(order_dir) \notin {"ASC", "DESC", ""} THEN Failure(500)  \* SQL syntax error
        ELSE [status |-> 200,
              draw |-> draw.val,
              recordsTotal |-> Len(t.rows),
              recordsFiltered |-> count_filtered(t, display_cols, search_value),
              data |-> [i \in 1..Len(page) |->
                          [j \in 1..Len(display_cols) |->
                              page[i][ColumnIndex(t.cols, display_cols[j])]]],
              sort_column |-> sort.col,
              order_dir   |-> upper(order_dir)]

\* A table the store does not hold
NoTable == [exists |-> FALSE, cols |-> << >>, rows |-> << >>]

(***************************************************************************)
(* process_financial_data.py: reading, normalising and loading             *)
(***************************************************************************)
\* str(n) of an integer
RECURSIVE NatText(_)
NatText(n) ==
    IF n < 10 THEN Ch(DIGITS, n + 1) ELSE NatText(n \div 10) \o Ch(DIGITS, (n % 10) + 1)

IntText(n) == IF n < 0 THEN "-" \o NatText(0 - n) ELSE NatText(n)

\* The column labels pandas takes from a header line: an empty field is
\* "Unnamed: <position>".  (No header of the model repeats a field.)
header_names(line) ==
    [j \in 1..Len(line) |-> IF line[j] = "" THEN "Unnamed: " \o IntText(j - 1) ELSE line[j]]

\* An integer of the uint64 range above the int64 range: pandas reads it as
\* uint64, sqlite3 cannot bind it
INT64_DIGITS  == 19
MIN_UINT64_ONLY == "9223372036854775808"
MAX_UINT64      == "18446744073709551615"

exceeds_int64(text) ==
    /\ text # ""
    /\ \A i \in 1..Len(text) : PosIn(Ch(text, i), DIGITS) > 0
    /\ \/ Len(text) = INT64_DIGITS /\ ~StrLess(text, MIN_UINT64_ONLY)
       \/ Len(text) = INT64_DIGITS + 1 /\ ~StrLess(MAX_UINT64, text)

BigNum(s) == [k |-> "big", n |-> 0, s |-> s]

\* The values pandas gives the fields of one column: an empty field is NaN;
\* a column whose fields are all integers is int64, or float64 when a NaN
\* sits among them; any other column keeps its text.
column_values(fields) ==
    LET filled  == {i \in 1..Len(fields) : fields[i] # ""}
        numeric == filled # {} /\ \A i \in filled :
                       exceeds_int64(fields[i]) \/ int(fields[i]).ok
        float   == filled # DOMAIN fields
    IN  [i \in 1..Len(fields) |->
            IF fields[i] = "" THEN NULL
            ELSE IF exceeds_int64(fields[i]) THEN BigNum(fields[i])
            ELSE IF numeric
                 THEN LET n == int(fields[i]).val
                      IN  Num(n, IF float THEN IntText(n) \o ".0" ELSE IntText(n))
                 ELSE Text(fields[i])]

\* The frame of the lines of a file: the first is the header
DataFrame(lines) ==
    LET body == Tail(lines)
        width == Len(lines[1])
        field(i, j) == IF j <= Len(body[i]) THEN body[i][j] ELSE ""
        cols == [j \in 1..width |-> column_values([i \in 1..Len(body) |-> field(i, j)])]
    IN  [columns |-> header_names(lines[1]),
         rows    |-> [i \in 1..Len(body) |-> [j \in 1..width |-> cols[j][i]]]]

None == [ok |-> FALSE, columns |-> << >>, rows |-> << >>]
Frame(df) == [ok |-> TRUE, columns |-> df.columns, rows |-> df.rows]

\* None is the `return None` of the except branch (and of an extension that
\* is neither .csv nor .xlsx / .xls)
read_data_with_header(f, header_index) ==
    LET ext == suffix(f.path)
        r   == IF ext = ".csv" THEN csv_lines(f, header_index)
               ELSE IF ext \in {".xlsx", ".xls"} THEN excel_lines(f, header_index)
               ELSE ParseError
    IN  IF ~r.ok \/ r.rows = << >> THEN None ELSE Frame(DataFrame(r.rows))

\* df[name] = value: the column is overwritten, or appended when new
set_column(df, name, value) ==
    IF name \in Range(df.columns)
    THEN [df EXCEPT !.rows = [i \in 1..Len(df.rows) |->
                                 [j \in 1..Len(df.columns) |->
                                     IF df.columns[j] = name THEN value
                                     ELSE df.rows[i][j]]]]
    ELSE [df EXCEPT !.columns = Append(df.columns, name),
                    !.rows = [i \in 1..Len(df.rows) |-> Append(df.rows[i], value)]]

\* df.columns = [str(c).strip().title() for c in df.columns]
standardize(df) ==
    [df EXCEPT !.columns = [j \in 1..Len(df.columns) |-> title(strip(df.columns[j]))]]

\* df[names]: ok = FALSE is KeyError
select_columns(df, names) ==
    IF \E j \in 1..Len(names) : names[j] \notin Range(df.columns)
    THEN None
    ELSE [ok |-> TRUE, columns |-> names,
          rows |-> [i \in 1..Len(df.rows) |->
                       [j \in 1..Len(names) |->
                           df.rows[i][ColumnIndex(df.columns, names[j])]]]]

\* A lookup whose miss yields an empty date
metadata_date_blank(cache, filename) ==
    IF filename \in DOMAIN cache THEN cache[filename] ELSE ""

\* metadata_cache.get(filename, {'date': 'N/A', 'title': 'N/A'})['date']
metadata_date(cache, filename) ==
    IF filename \in DOMAIN cache THEN cache[filename] ELSE "N/A"

\* The loop of lines 40-45 over the fetched rows: filename -> date of the
\* rows that have a filepath, a later row replacing an earlier one
cache_of(rows) ==
    LET names == {basename(rows[i].filepath) :
                     i \in {k \in 1..Len(rows) : rows[k].filepath # ""}}
    IN  [n \in names |->
            LET hits == {i \in 1..Len(rows) :
                            /\ rows[i].filepath # ""
                            /\ basename(rows[i].filepath) = n}
            IN  rows[CHOOSE i \in hits : \A j \in hits : j <= i].date]

\* A reader that keeps the rows read before the error
load_metadata_cache_partial(store) ==
    IF ~store.exists THEN << >>
    ELSE IF store.broken THEN cache_of(SubSeq(store.rows, 1, store.read_before))
    ELSE cache_of(store.rows)

\* load_metadata_cache: {} when the file is absent; fetchall() either yields
\* every row or raises before the loop has put a record into the cache
load_metadata_cache(store) ==
    IF ~store.exists THEN << >>
    ELSE IF store.broken THEN << >>
    ELSE cache_of(store.rows)

\* setup_database: the old file is removed, tenor_rates is created
TENOR_RATES_DDL ==
    <<"unique_id", "Tenor", "Mid Rate", "Change", "report_date", "source_filepath">>

\* A set-up that keeps the store file when there is one
setup_database_keep_file ==
    IF db.tenor_rates.exists THEN db
    ELSE [tenor_rates      |-> [exists |-> TRUE,
                                cols |-> <<"unique_id", "Tenor", "Mid Rate", "Change",
                                           "report_date", "source_filepath">>,
                                rows |-> << >>],
          mutual_fund_data |-> NoTable]

setup_database ==
    [tenor_rates      |-> [exists |-> TRUE, cols |-> TENOR_RATES_DDL, rows |-> << >>],
     mutual_fund_data |-> NoTable]

\* What a TEXT / REAL column of tenor_rates stores for a value
text_affinity(v) == IF v.k = "num" THEN Text(v.s) ELSE v
real_affinity(v) ==
    IF v.k = "num" THEN Num(v.n, IntText(v.n) \o ".0")
    ELSE IF v.k = "text" /\ int(v.s).ok THEN Num(int(v.s).val, IntText(int(v.s).val) \o ".0")
    ELSE v

\* df_to_load.to_sql('tenor_rates', conn, if_exists='append', index=False)
append_tenor_rates(t, df) ==
    [t EXCEPT !.rows = t.rows \o
        [i \in 1..Len(df.rows) |->
            <<Num(Len(t.rows) + i, IntText(Len(t.rows) + i)),
              text_affinity(df.rows[i][1]),
              real_affinity(df.rows[i][2]),
              real_affinity(df.rows[i][3]),
              text_affinity(df.rows[i][4]),
              text_affinity(df.rows[i][5])>>]]

\* to_sql raises (OverflowError from the sqlite3 binding) and the transaction
\* of the call is rolled back: no row of the frame is written
to_sql_fails(df) ==
    \E i \in 1..Len(df.rows) : \E j \in 1..Len(df.rows[i]) : df.rows[i][j].k = "big"

\* The frame main() stages for a PKFRV file (lines 184-189), None when the
\* file cannot be read
pkfrv_frame(f, header_index, cache) ==
    LET df == read_data_with_header(f, header_index)
    IN  IF ~df.ok THEN None
        ELSE set_column(set_column(standardize(df), "Report_Date",
                                   Text(metadata_date(cache, basename(f.path)))),
                        "Source_Filepath", Text(f.path))

\* The frame main() loads for a PKRV file (lines 166-176), None when the
\* file cannot be read or a column is missing
pkrv_frame(f, header_index, cache) ==
    LET df == read_data_with_header(f, header_index)
    IN  IF ~df.ok THEN None
        ELSE select_columns(
                 set_column(set_column(standardize(df), "report_date",
                                       Text(metadata_date(cache, basename(f.path)))),
                            "source_filepath", Text(f.path)),
                 <<"Tenor", "Mid Rate", "Change", "report_date", "source_filepath">>)

\* A backfill that leaves the missing column null
missing_value_null == NULL

\* line 219: the value a missing column is filled with
missing_value == Num(0, "0")

\* lines 217-219: for col in sorted_columns: if col not in df.columns: df[col] = 0
RECURSIVE backfill(_, _, _)
backfill(df, sorted_columns, i) ==
    IF i > Len(sorted_columns) THEN df
    ELSE IF sorted_columns[i] \notin Range(df.columns)
         THEN backfill(set_column(df, sorted_columns[i], missing_value), sorted_columns, i + 1)
         ELSE backfill(df, sorted_columns, i + 1)

\* line 205
sorted_columns(columns) == sorted(SetToSeq(columns))

(***************************************************************************)
(* Values left unset in a specification that does not use them             *)
(***************************************************************************)
Pending == [index |-> -2, type |-> "pending"]
NoFile  == [path |-> "", enc |-> "utf-8", rows |-> << >>]
NoReq   == [draw |-> "", start |-> "", length |-> "", search |-> "",
            column |-> "", dir |-> ""]
NoResp  == [status |-> 0, draw |-> 0, recordsTotal |-> 0, recordsFiltered |-> 0,
            data |-> << >>, sort_column |-> "", order_dir |-> ""]
NoDb    == [tenor_rates |-> NoTable, mutual_fund_data |-> NoTable]
NoMetadataDb == [exists |-> FALSE, rows |-> << >>, broken |-> FALSE, read_before |-> 0]
NoResult == [set |-> FALSE, db |-> NoDb]

HeaderIdle   == file = NoFile /\ found = Pending
NotShown == [done |-> FALSE, ok |-> TRUE, cols |-> << >>]
ResolverIdle == live = << >> /\ shown = NotShown /\ shownOld = NotShown
QueryIdle    == table = NoTable /\ req = NoReq /\ resp = NoResp
NoAnswer == [status |-> 0, path |-> << >>]
DownloadIdle == disk = {} /\ wanted = "" /\ sent = NoAnswer /\ sentOld = NoAnswer
ScraperIdle  == /\ mufap_reports = << >> /\ saved = {} /\ reports = << >>
                /\ tasks = << >> /\ running = 0 /\ attempted = {} /\ runs = 0
IngestIdle   == /\ pc = "idle" /\ all_files = << >> /\ idx = 0
                /\ metadata_db = NoMetadataDb
                /\ metadata_cache = << >> /\ pkfrv_data_to_load = << >>
                /\ all_pkfrv_columns = {} /\ db = NoDb /\ loaded = 0
                /\ first_result = NoResult /\ prev_end = "none" /\ db_before = NoDb

(***************************************************************************)
(* Specification SpecHeader: find_header_and_type on every small file      *)
(***************************************************************************)
MaxRows == 3

Lines3 == { <<"PKRV Rates", "", "">>,
            <<"Rates { 2024", "", "">>,
            <<"Tenor", "Mid Rate", "Change">>,
            <<" tenor ", "MID RATE", "change">>,
            <<"1W", "21.5", "0.1">> }

Lines4 == { <<"Issue Date", "Maturity date", "Coupon Frequency", "Yield">>,
            <<"issue date", "MATURITY DATE ", "coupon frequency", "">>,
            <<"Tenor", "Mid Rate", "Change", "Yield">>,
            <<"2024", "2025", "2", "7.5">> }

ScanPaths == {"PKRV/a.csv", "PKFRV/b.xlsx"}

ScanFiles ==
    { [path |-> p, enc |-> e, rows |-> r] :
        p \in ScanPaths, e \in ENCODINGS,
        r \in SeqsOf(Lines3 \cup {<< >>}, 1, MaxRows)
              \cup SeqsOf(Lines4 \cup {<< >>}, 1, MaxRows) }

InitHeader ==
    /\ file \in ScanFiles
    /\ found = Pending
    /\ ResolverIdle /\ QueryIdle /\ IngestIdle /\ DownloadIdle /\ ScraperIdle /\ rtype = ""

ScanFile ==
    /\ found = Pending
    /\ found' = find_header_and_type(file)
    /\ UNCHANGED <<file, resolverVars, queryVars, ingestVars, downloadVars, scraperVars, rtype>>

NextHeader == ScanFile

SpecHeader == InitHeader /\ [][NextHeader]_vars

\* The index (from 0) of the first line of the file as saved whose
\* normalised tokens match a fingerprint, -1 when there is none.
TrueHeaderIndex(f) ==
    LET hits == {i \in 1..Len(f.rows) :
                    classify(potential_header_set(f.rows[i])) # NoType}
    IN  IF hits = {} THEN -1
        ELSE (CHOOSE i \in hits : \A j \in hits : i <= j) - 1

TrueHeaderType(f) ==
    classify(potential_header_set(f.rows[TrueHeaderIndex(f) + 1]))

\* C2: a file whose true header row is at index k (inside the scan window)
\* and matches fingerprint F is located at (k, F), whatever the supported
\* encoding it is saved in.  Stated for the files without blank lines, where
\* the index of a row does not depend on how blank lines are counted.
C2_LocatedInAnyEncoding ==
    (/\ found # Pending
     /\ TrueHeaderIndex(file) \in 0..(MAX_HEADER_SCAN_ROWS - 1)
     /\ \A i \in 1..Len(file.rows) : file.rows[i] # << >>)
    => found = [index |-> TrueHeaderIndex(file), type |-> TrueHeaderType(file)]

\* C3: the row the scan stops at is PKRV iff its token set equals
\* {Tenor, Mid Rate, Change}, otherwise PKFRV iff it contains {Issue Date,
\* Maturity Date, Coupon Frequency}; every row before it, and every row
\* when nothing is found, is neither.
C3_ExactBeforeSubset ==
    (found # Pending /\ read_preview(file).ok) =>
        LET rows     == read_preview(file).rows
            EXACT    == {"Tenor", "Mid Rate", "Change"}
            SUBSET_  == {"Issue Date", "Maturity Date", "Coupon Frequency"}
            IsExact(i)  == potential_header_set(rows[i]) = EXACT
            IsSubset(i) == SUBSET_ \subseteq potential_header_set(rows[i])
            last     == IF found = NotFound THEN Len(rows) ELSE found.index
        IN  /\ \A i \in 1..last : ~IsExact(i) /\ ~IsSubset(i)
            /\ found.type \in {"PKRV", "PKFRV", NoType}
            /\ found # NotFound =>
                /\ found.index + 1 \in 1..Len(rows)
                /\ found.type = "PKRV" <=> IsExact(found.index + 1)
                /\ found.type = "PKFRV" <=>
                       (~IsExact(found.index + 1) /\ IsSubset(found.index + 1))
            /\ found = NotFound => found.type = NoType

\* A header carrying the three exact tokens and one more was passed over and
\* a later row classified as PKFRV.
C3_Witness ==
    /\ found.type = "PKFRV"
    /\ found.index = 1
    /\ file.rows[1] = <<"Tenor", "Mid Rate", "Change", "Yield">>

(***************************************************************************)
(* Specification SpecIngest: one run of main() over a batch of files       *)
(***************************************************************************)
MaxFiles == 2

\* The files the two scanned directories may hold
IngestFiles ==
    { [path |-> "PKRV/r1.csv", enc |-> "utf-8",
       rows |-> << <<"PKRV Rates", "", "">>, <<" tenor", "MID RATE", "change">>,
                   <<"1W", "21", "1">>, <<"2W", "22", "">> >>],
      [path |-> "PKRV/r2.xlsx", enc |-> "utf-8",
       rows |-> << <<"Tenor", "Mid Rate", "Change">>, <<"1M", "20", "0">> >>],
      [path |-> "PKRV/r3.csv", enc |-> "utf-8",
       rows |-> << <<"PKRV Rates", "", "">>, << >>, <<"As of", "2024", "">>,
                   <<"Tenor", "Mid Rate", "Change">>, <<"3M", "19", "2">> >>],
      [path |-> "PKFRV/f1.csv", enc |-> "utf-8",
       rows |-> << <<"Issue Date", "Maturity date", "Coupon Frequency", "Yield">>,
                   <<"2024-01-01", "2025-01-01", "2", "15">> >>],
      [path |-> "PKFRV/f2.xlsx", enc |-> "utf-8",
       rows |-> << <<"Floating Rate Bonds", "", "", "">>,
                   <<"issue date", "MATURITY DATE ", "coupon frequency", "amount">>,
                   <<"2023-05-05", "2026-05-05", "4", "100">>,
                   <<"2023-06-06", "2026-06-06", "", "0">> >>],
      [path |-> "PKFRV/f3.csv", enc |-> "cp1252",
       rows |-> << <<"Issue Date", "Maturity Date", "Coupon Frequency", "">>,
                   <<"2022-02-02", "2027-02-02", "1", "x">> >>],
      [path |-> "PKRV/r4.csv", enc |-> "utf-8",
       rows |-> << <<"Tenor", "Mid Rate", "Change">>,
                   <<"6M", "18446744073709551615", "1">> >>],
      [path |-> "PKFRV/f4.csv", enc |-> "utf-8",
       rows |-> << <<"Issue Date", "Maturity Date", "Coupon Frequency", "Units">>,
                   <<"2020-04-04", "2030-04-04", "2", "9223372036854775808">> >>],
      [path |-> "PKFRV/l1.csv", enc |-> "latin1",
       rows |-> << <<"Issue Date", "Maturity Date", "Coupon Frequency", "Rate {">>,
                   <<"2021-03-03", "2028-03-03", "2", "7">> >>] }

\* glob returns the files of a directory in no particular order
Batches ==
    {b \in SeqsOf(IngestFiles, 0, MaxFiles) :
        \A i, j \in 1..Len(b) : i # j => b[i].path # b[j].path}

ProvenanceRows ==
    << [filepath |-> "reports/f1.csv", date |-> "2024-01-31"],
       [filepath |-> "", date |-> "2024-02-01"],
       [filepath |-> "old/r1.csv", date |-> "2024-03-01"],
       [filepath |-> "reports/r1.csv", date |-> "2024-03-02"] >>

\* mufap_data.db: absent, readable, or failing after read_before rows
MetadataStores ==
    { NoMetadataDb,
      [exists |-> TRUE, rows |-> ProvenanceRows, broken |-> FALSE, read_before |-> 0],
      [exists |-> TRUE, rows |-> ProvenanceRows, broken |-> TRUE,
       read_before |-> Len(ProvenanceRows) - 1] }

\* financial_data.db before the run: absent, or left by an earlier run
OldDb ==
    [tenor_rates |->
        [exists |-> TRUE, cols |-> TENOR_RATES_DDL,
         rows |-> << <<Num(1, "1"), Text("1Y"), Num(18, "18.0"), Num(0, "0.0"),
                       Text("N/A"), Text("PKRV/old.csv")>> >>],
     mutual_fund_data |->
        [exists |-> TRUE, cols |-> <<"Old Column", "Source_Filepath">>,
         rows |-> << <<Num(5, "5"), Text("PKFRV/old.csv")>> >>]]

InitIngest ==
    /\ HeaderIdle /\ ResolverIdle /\ QueryIdle /\ DownloadIdle /\ ScraperIdle /\ rtype = ""
    /\ pc = "start"
    /\ metadata_db \in MetadataStores
    /\ all_files \in Batches
    /\ db \in {NoDb, OldDb}
    /\ idx = 0
    /\ metadata_cache = << >>
    /\ pkfrv_data_to_load = << >>
    /\ all_pkfrv_columns = {}
    /\ loaded = 0
    /\ first_result = NoResult
    /\ prev_end = "none"
    /\ db_before = NoDb

\* What an ended run leaves on record: the first one is kept
record_result(store) ==
    IF first_result.set THEN first_result ELSE [set |-> TRUE, db |-> store]

othersIdle == UNCHANGED <<headerVars, resolverVars, queryVars, downloadVars, scraperVars, rtype>>

\* A main() that looks for input files before it touches the store
Start_files_first ==
    /\ pc = "start"
    /\ metadata_cache' = load_metadata_cache(metadata_db)
    /\ db_before' = IF all_files = << >> THEN db ELSE NoDb
    /\ db' = IF all_files = << >> THEN db ELSE setup_database
    /\ pc' = IF all_files = << >> THEN "done" ELSE "phase1"
    /\ first_result' = IF all_files = << >> THEN record_result(db') ELSE first_result
    /\ UNCHANGED <<metadata_db, all_files, idx, pkfrv_data_to_load,
                   all_pkfrv_columns, loaded, prev_end>>
    /\ othersIdle

\* main(), lines 128-150: the cache is read, the store is recreated, the
\* directories are listed; with no file the run ends here
Start ==
    /\ pc = "start"
    /\ metadata_cache' = load_metadata_cache(metadata_db)
    /\ db_before' = IF all_files = << >> THEN db ELSE NoDb
    /\ db' = setup_database
    /\ pc' = IF all_files = << >> THEN "done" ELSE "phase1"
    /\ first_result' = IF all_files = << >> THEN record_result(db') ELSE first_result
    /\ UNCHANGED <<metadata_db, all_files, idx, pkfrv_data_to_load,
                   all_pkfrv_columns, loaded, prev_end>>
    /\ othersIdle

\* A test that lets every readable extension through
is_csv_or_excel(f) == lower(suffix(f.path)) \in {".csv", ".xlsx", ".xls"}

\* line 160: a PKRV file is read only if Path(filepath).suffix.lower() is .csv
is_csv(f) == lower(suffix(f.path)) = ".csv"

\* main(), lines 154-200: one turn of the phase-1 loop
ProcessFile ==
    /\ pc = "phase1"
    /\ idx < Len(all_files)
    /\ LET filepath == all_files[idx + 1]
           h == find_header_and_type(filepath)
       IN  /\ idx' = idx + 1
           /\ IF h.type = "PKRV"
              THEN LET df == pkrv_frame(filepath, h.index, metadata_cache)
                   IN  /\ db' = IF /\ is_csv(filepath)
                                   /\ df.ok /\ ~to_sql_fails(df)
                                THEN [db EXCEPT !.tenor_rates =
                                         append_tenor_rates(db.tenor_rates, df)]
                                ELSE db
                       /\ UNCHANGED <<pkfrv_data_to_load, all_pkfrv_columns>>
              ELSE IF h.type = "PKFRV"
              THEN LET df == pkfrv_frame(filepath, h.index, metadata_cache)
                   IN  /\ pkfrv_data_to_load' =
                              IF df.ok THEN Append(pkfrv_data_to_load, df)
                              ELSE pkfrv_data_to_load
                       /\ all_pkfrv_columns' =
                              IF df.ok THEN all_pkfrv_columns \cup Range(df.columns)
                              ELSE all_pkfrv_columns
                       /\ UNCHANGED db
              ELSE UNCHANGED <<db, pkfrv_data_to_load, all_pkfrv_columns>>
    /\ UNCHANGED <<pc, metadata_db, all_files, metadata_cache, loaded,
                   first_result, prev_end, db_before>>
    /\ othersIdle

\* A phase 2 that starts as soon as one frame is staged
CreateTable_eager ==
    /\ pc = "phase1"
    /\ pkfrv_data_to_load # << >>
    /\ db' = [db EXCEPT !.mutual_fund_data =
                 [exists |-> TRUE, cols |-> sorted_columns(all_pkfrv_columns),
                  rows |-> << >>]]
    /\ pc' = "phase2"
    /\ UNCHANGED <<metadata_db, all_files, idx, metadata_cache,
                   pkfrv_data_to_load, all_pkfrv_columns, loaded,
                   first_result, prev_end, db_before>>
    /\ othersIdle

\* main(), lines 203-212: CREATE TABLE mutual_fund_data over the sorted union
CreateTable ==
    /\ pc = "phase1"
    /\ idx = Len(all_files)
    /\ pkfrv_data_to_load # << >>
    /\ db' = [db EXCEPT !.mutual_fund_data =
                 [exists |-> TRUE, cols |-> sorted_columns(all_pkfrv_columns),
                  rows |-> << >>]]
    /\ pc' = "phase2"
    /\ UNCHANGED <<metadata_db, all_files, idx, metadata_cache,
                   pkfrv_data_to_load, all_pkfrv_columns, loaded,
                   first_result, prev_end, db_before>>
    /\ othersIdle

\* main(), lines 216-222: one turn of the phase-2 loop
LoadFrame ==
    /\ pc = "phase2"
    /\ loaded < Len(pkfrv_data_to_load)
    /\ LET cols == db.mutual_fund_data.cols
           df == backfill(pkfrv_data_to_load[loaded + 1], cols, 1)
           df_to_load == select_columns(df, cols)
       IN  /\ pkfrv_data_to_load' = [pkfrv_data_to_load EXCEPT ![loaded + 1] = df]
           /\ IF to_sql_fails(df_to_load)
              THEN \* the exception leaves main(): the run ends here
                   /\ pc' = "aborted"
                   /\ first_result' = record_result(db)
                   /\ UNCHANGED <<db, loaded>>
              ELSE /\ db' = [db EXCEPT !.mutual_fund_data.rows = @ \o df_to_load.rows]
                   /\ loaded' = loaded + 1
                   /\ UNCHANGED <<pc, first_result>>
    /\ UNCHANGED <<metadata_db, all_files, idx, metadata_cache, all_pkfrv_columns,
                   prev_end, db_before>>
    /\ othersIdle

\* main(), lines 225-233: the report is printed, the connection is closed
Finish ==
    /\ \/ pc = "phase1" /\ idx = Len(all_files) /\ pkfrv_data_to_load = << >>
       \/ pc = "phase2" /\ loaded = Len(pkfrv_data_to_load)
    /\ pc' = "done"
    /\ first_result' = record_result(db)
    /\ UNCHANGED <<metadata_db, all_files, idx, metadata_cache, pkfrv_data_to_load,
                   all_pkfrv_columns, db, loaded, prev_end, db_before>>
    /\ othersIdle

\* The process is terminated half-way.  Inside setup_database the old file
\* may still be there, be removed, or be recreated with tenor_rates only.
Kill ==
    /\ pc \in {"start", "phase1", "phase2"}
    /\ pc' = "killed"
    /\ db' \in IF pc = "start" THEN {db, NoDb, setup_database} ELSE {db}
    /\ UNCHANGED <<metadata_db, all_files, idx, metadata_cache, pkfrv_data_to_load,
                   all_pkfrv_columns, loaded, first_result, prev_end, db_before>>
    /\ othersIdle

\* The script is run again over the same directories and provenance store:
\* a new process, whose only inheritance is the store file
Rerun ==
    /\ pc \in {"done", "aborted", "killed"}
    /\ pc' = "start"
    /\ prev_end' = pc
    /\ idx' = 0
    /\ metadata_cache' = << >>
    /\ pkfrv_data_to_load' = << >>
    /\ all_pkfrv_columns' = {}
    /\ loaded' = 0
    /\ UNCHANGED <<metadata_db, all_files, db, first_result, db_before>>
    /\ othersIdle

NextIngest ==
    Start \/ ProcessFile \/ CreateTable \/ LoadFrame \/ Finish \/ Kill \/ Rerun

SpecIngest == InitIngest /\ [][NextIngest]_vars

\* The frames main() stages from a batch, in batch order
StagedFrames(files, cache) ==
    LET frame(f) == pkfrv_frame(f, find_header_and_type(f).index, cache)
        staged == SelectSeq(files, LAMBDA f : /\ find_header_and_type(f).type = "PKFRV"
                                               /\ frame(f).ok)
    IN  [k \in 1..Len(staged) |-> frame(staged[k])]

RECURSIVE RowsBefore(_, _)
RowsBefore(frames, k) ==
    IF k <= 1 THEN 0 ELSE RowsBefore(frames, k - 1) + Len(frames[k - 1].rows)

\* C1: once mutual_fund_data is created its column list is the sorted union
\* of the column sets of the staged PKFRV frames of the run; every loaded row
\* has one value per column of the table: the value of its own file where the
\* file has the column, and the number 0 (not null, not text) where it has
\* not; at the end of the run every staged row is loaded.
C1_SortedUnionZeroFilled ==
    (pc \in {"phase2", "done"} /\ db.mutual_fund_data.exists) =>
        LET t      == db.mutual_fund_data
            frames == StagedFrames(all_files, metadata_cache)
        IN  /\ Range(t.cols) = UNION {Range(frames[k].columns) : k \in 1..Len(frames)}
            /\ \A i, j \in 1..Len(t.cols) : i < j => StrLess(t.cols[i], t.cols[j])
            /\ loaded <= Len(frames)
            /\ Len(t.rows) = RowsBefore(frames, loaded + 1)
            /\ pc = "done" => loaded = Len(frames)
            /\ \A k \in 1..loaded : \A r \in 1..Len(frames[k].rows) :
                   LET row == t.rows[RowsBefore(frames, k) + r]
                   IN  /\ Len(row) = Len(t.cols)
                       /\ \A j \in 1..Len(t.cols) :
                              IF t.cols[j] \in Range(frames[k].columns)
                              THEN row[j] = frames[k].rows[r][ColumnIndex(frames[k].columns,
                                                                          t.cols[j])]
                              ELSE row[j] = [k |-> "num", n |-> 0, s |-> "0"]

\* C1 witness: the batch f1.csv {.., Yield}, f2.xlsx {.., Amount} is loaded:
\* the table has both columns, f1's row holds Amount = 0 and its own Yield,
\* f2's rows hold Yield = 0 and their own Amount
C1_Witness ==
    /\ pc = "done"
    /\ Len(all_files) = 2
    /\ all_files[1].path = "PKFRV/f1.csv" /\ all_files[2].path = "PKFRV/f2.xlsx"
    /\ db.mutual_fund_data.cols =
           <<"Amount", "Coupon Frequency", "Issue Date", "Maturity Date",
             "Report_Date", "Source_Filepath", "Yield">>
    /\ Len(db.mutual_fund_data.rows) = 3
    /\ db.mutual_fund_data.rows[1][1] = Num(0, "0")
    /\ db.mutual_fund_data.rows[1][7] = Num(15, "15")
    /\ db.mutual_fund_data.rows[2][1] = Num(100, "100")
    /\ db.mutual_fund_data.rows[2][7] = Num(0, "0")
    /\ db.mutual_fund_data.rows[3][7] = Num(0, "0")

\* The frame main() loads for a file of the batch, None when the file is
\* skipped or cannot be read
LoadedFrame(f, cache) ==
    LET h == find_header_and_type(f)
    IN  IF h.type = "PKRV" /\ lower(suffix(f.path)) = ".csv"
        THEN pkrv_frame(f, h.index, cache)
        ELSE IF h.type = "PKFRV" THEN pkfrv_frame(f, h.index, cache)
        ELSE None

\* The rows of a table that carry the path in the named column
RowsFrom(t, pathcol, path) ==
    IF ~t.exists THEN << >>
    ELSE SelectSeq(t.rows, LAMBDA row : row[ColumnIndex(t.cols, pathcol)] = Text(path))

\* The rows the store holds for a file of the batch
StoredRowsOf(f) ==
    IF find_header_and_type(f).type = "PKRV"
    THEN RowsFrom(db.tenor_rates, "source_filepath", f.path)
    ELSE RowsFrom(db.mutual_fund_data, "Source_Filepath", f.path)

Ended == pc \in {"done", "aborted"}

\* C12: when the run has ended, every file of the batch that was read has
\* all its rows in its table unless its own load failed, and a file whose
\* load failed has none: the failure of one file costs no other file its
\* rows.
C12_LoadFailureContained ==
    Ended =>
        \A i \in 1..Len(all_files) :
            LET df == LoadedFrame(all_files[i], metadata_cache)
            IN  df.ok =>
                    Len(StoredRowsOf(all_files[i])) =
                        IF to_sql_fails(df) THEN 0 ELSE Len(df.rows)

\* C13: every table of the store has the surrogate key column unique_id
\* next to its data columns, and no two rows of a table share a key value.
C13_EveryTableHasSurrogateKey ==
    pc # "start" =>
        \A t \in {db.tenor_rates, db.mutual_fund_data} :
            t.exists =>
                /\ "unique_id" \in Range(t.cols)
                /\ \A i, j \in 1..Len(t.rows) :
                       i # j => t.rows[i][ColumnIndex(t.cols, "unique_id")]
                                # t.rows[j][ColumnIndex(t.cols, "unique_id")]

\* C14: every run that ends over the same files and provenance store leaves
\* the store exactly as the first ended run left it, whatever the runs in
\* between did (completed, aborted or terminated half-way) and whatever the
\* store held before the first run; the ended store holds only rows of the
\* files of the batch, each file's rows at most once.
C14_RerunLeavesSameStore ==
    Ended =>
        /\ first_result.set
        /\ db = first_result.db
        /\ \A t \in {db.tenor_rates, db.mutual_fund_data} : \A i \in 1..Len(t.rows) :
               \E k \in 1..Len(all_files) :
                   \E c \in 1..Len(t.cols) :
                       /\ t.cols[c] \in {"source_filepath", "Source_Filepath"}
                       /\ t.rows[i][c] = Text(all_files[k].path)
        /\ \A k \in 1..Len(all_files) :
               LET df == LoadedFrame(all_files[k], metadata_cache)
               IN  Len(StoredRowsOf(all_files[k])) <= Len(df.rows)

\* C14 witness: a run has completed after an earlier completed run over a
\* batch that fills both tables, on a store that held other rows at first
C14_Witness ==
    /\ pc = "done" /\ prev_end = "done"
    /\ first_result.set /\ db = first_result.db
    /\ Len(all_files) = 2
    /\ Len(db.tenor_rates.rows) = 2
    /\ Len(db.mutual_fund_data.rows) = 1

\* C15: a step creates mutual_fund_data or writes a row into it only when
\* the phase-1 loop has finished every file of the batch, and it examines no
\* file; while the rows of a PKRV file are in tenor_rates as soon as the
\* loop has passed that file, whatever files are still to come.
C15_VariableSchemaAfterWholeBatch ==
    /\ [][(/\ db'.mutual_fund_data # db.mutual_fund_data
           /\ db'.mutual_fund_data.exists)
          => (idx = Len(all_files) /\ idx' = idx)]_vars
    /\ [](pc \in {"phase1", "phase2", "done", "aborted"} =>
            \A i \in 1..idx :
                LET f  == all_files[i]
                    df == LoadedFrame(f, metadata_cache)
                IN  (find_header_and_type(f).type = "PKRV" /\ df.ok /\ ~to_sql_fails(df))
                    => Len(StoredRowsOf(f)) = Len(df.rows))

\* C15 witness: the rows of the PKRV file listed first are written while the
\* PKFRV file listed second is still to be examined and no mutual_fund_data
\* table exists
C15_Witness ==
    /\ pc = "phase1" /\ idx = 1 /\ Len(all_files) = 2
    /\ all_files[1].path = "PKRV/r1.csv" /\ all_files[2].path = "PKFRV/f1.csv"
    /\ Len(db.tenor_rates.rows) = 2
    /\ ~db.mutual_fund_data.exists

\* The date the provenance store yields for a file: that of the last record
\* whose filepath has the file's base name, "N/A" without such a record or
\* when the store cannot be read
ProvenanceDate(f) ==
    LET hits == {i \in 1..Len(metadata_db.rows) :
                    /\ metadata_db.rows[i].filepath # ""
                    /\ basename(metadata_db.rows[i].filepath) = basename(f.path)}
    IN  IF ~metadata_db.exists \/ metadata_db.broken \/ hits = {} THEN "N/A"
        ELSE metadata_db.rows[CHOOSE i \in hits : \A j \in hits : j <= i].date

\* C16: during and after a run every row of either table carries the path of
\* a file of the batch in the path column and, in the date column, the date
\* the provenance store holds for that file's base name, "N/A" when it
\* holds none; when the run completes, every file that was read and whose
\* load did not fail has all its rows stored, a provenance record or not.
C16_RowsCarryProvenance ==
    (pc \in {"phase1", "phase2", "done", "aborted"}) =>
        /\ \A i \in 1..Len(db.tenor_rates.rows) : \E k \in 1..Len(all_files) :
               LET row == db.tenor_rates.rows[i]
                   c   == db.tenor_rates.cols
               IN  /\ row[ColumnIndex(c, "source_filepath")] = Text(all_files[k].path)
                   /\ row[ColumnIndex(c, "report_date")] =
                          Text(ProvenanceDate(all_files[k]))
        /\ \A i \in 1..Len(db.mutual_fund_data.rows) : \E k \in 1..Len(all_files) :
               LET row == db.mutual_fund_data.rows[i]
                   c   == db.mutual_fund_data.cols
               IN  /\ row[ColumnIndex(c, "Source_Filepath")] = Text(all_files[k].path)
                   /\ row[ColumnIndex(c, "Report_Date")] =
                          Text(ProvenanceDate(all_files[k]))
        /\ pc = "done" =>
               \A k \in 1..Len(all_files) :
                   LET df == LoadedFrame(all_files[k], metadata_cache)
                   IN  (df.ok /\ ~to_sql_fails(df))
                       => Len(StoredRowsOf(all_files[k])) = Len(df.rows)

\* C16 witness: r1.csv has two provenance records and its rows carry the
\* date of the last; f2.xlsx has none and its rows carry "N/A"
C16_Witness ==
    /\ pc = "done" /\ metadata_db.exists
    /\ Len(all_files) = 2
    /\ all_files[1].path = "PKRV/r1.csv" /\ all_files[2].path = "PKFRV/f2.xlsx"
    /\ Len(db.tenor_rates.rows) = 2
    /\ db.tenor_rates.rows[1][5] = Text("2024-03-02")
    /\ db.tenor_rates.rows[1][6] = Text("PKRV/r1.csv")
    /\ Len(db.mutual_fund_data.rows) = 2
    /\ db.mutual_fund_data.rows[1][5] = Text("N/A")
    /\ db.mutual_fund_data.rows[1][6] = Text("PKFRV/f2.xlsx")

Started == pc \in {"phase1", "phase2", "done", "aborted"}

MaxLive == 4

\* CREATE TABLE tenor_rates, process_financial_data.py:65-74
TENOR_RATES_COLUMNS ==
    <<"unique_id", "Tenor", "Mid Rate", "Change", "report_date", "source_filepath">>

ColumnNames ==
    {"unique_id", "Report_Date", "report_date", "Source_Filepath", "source_filepath",
     "Issue Date", "Coupon Frequency", "coupon frequency", "Yield", "Unnamed: 3",
     "}{|", "~", ""}

\* SQLite refuses two columns whose names differ in case only
DistinctNames(S) == \A a, b \in S : lower(a) = lower(b) => a = b

Reverse(seq) == [i \in 1..Len(seq) |-> seq[Len(seq) + 1 - i]]

LiveColumnLists ==
    {TENOR_RATES_COLUMNS}
    \cup UNION { {sorted(SetToSeq(S)), Reverse(sorted(SetToSeq(S)))} :
                 S \in {T \in SUBSET ColumnNames : Cardinality(T) <= MaxLive
                                                   /\ DistinctNames(T)} }

ReportTypes == {"PKFRV", "pkrv"}

InitResolver ==
    /\ live \in LiveColumnLists
    /\ rtype \in ReportTypes
    /\ shown = NotShown /\ shownOld = NotShown
    /\ HeaderIdle /\ QueryIdle /\ IngestIdle /\ DownloadIdle /\ ScraperIdle

\* app.py:99-104, get_report_page
Resolve ==
    /\ ~shown.done
    /\ shown' = [done |-> TRUE, ok |-> TRUE,
                 cols |-> get_display_columns(live, get_table_config(rtype).fixed_order)]
    /\ UNCHANGED <<live, rtype, shownOld, headerVars, queryVars, ingestVars, downloadVars, scraperVars>>

\* viewer_app.py:184, get_report_data
ResolveOld ==
    /\ ~shownOld.done
    /\ LET r == viewer_ordered_cols(live, get_table_config(rtype).fixed_order)
       IN  shownOld' = [done |-> TRUE, ok |-> r.ok, cols |-> r.cols]
    /\ UNCHANGED <<live, rtype, shown, headerVars, queryVars, ingestVars, downloadVars, scraperVars>>

NextResolver == Resolve \/ ResolveOld

SpecResolver == InitResolver /\ [][NextResolver]_vars

IsUnnamed(col) == Contains(lower(col), "unnamed")

C5_PrefixThenSorted ==
    shown.done =>
        LET out      == shown.cols
            fixed    == IF upper(rtype) = "PKFRV" THEN PKFRV_fixed_order
                        ELSE PKRV_fixed_order
            Hidden(c) == c \in {"unique_id", "Source_Filepath", "source_filepath", "}{|"}
                         \/ IsUnnamed(c)
            Match(p) == {c \in Range(live) : lower(c) = lower(p) /\ ~Hidden(c)}
            prefix   == SelectSeq(fixed, LAMBDA p : Match(p) # {})
            k        == Len(prefix)
        IN  /\ k <= Len(out)
            /\ \A i \in 1..k : out[i] \in Match(prefix[i])
            /\ \A i, j \in (k + 1)..Len(out) : i < j => StrLess(out[i], out[j])
            /\ Range(out) = {c \in Range(live) : ~Hidden(c)}
            /\ \A i, j \in 1..Len(out) : i # j => out[i] # out[j]

\* A preferred column matched in another case, a hidden column dropped and
\* two remaining columns that the table lists in descending order.
C5_Witness ==
    /\ shown.done
    /\ rtype = "PKFRV"
    /\ live = <<"coupon frequency", "Yield", "Unnamed: 3", "">>
    /\ shown.cols = <<"coupon frequency", "", "Yield">>

(***************************************************************************)
(* Specification SpecQuery: one request against one stored table           *)
(***************************************************************************)
MaxTableRows == 2

\* rows of tenor_rates, in the column order of TENOR_RATES_COLUMNS
TenorRows ==
    << <<Num(1, "1"), Text("1W"), Num(21, "21.0"), Num(-1, "-1.0"),
         Text("2024-01-05"), Text("PKRV/a.csv")>>,
       <<Num(2, "2"), Text("2W"), Num(20, "20.0"), Num(0, "0.0"),
         Text("N/A"), Text("PKRV/b.csv")>>,
       <<Num(3, "3"), Text("1m"), NULL, Num(3, "3.0"),
         Text("N/A"), Text("PKRV/b.csv")>> >>

\* a mutual_fund_data as main() creates it: the sorted union of the columns
MUTUAL_FUND_COLUMNS ==
    <<"Coupon Frequency", "Issue Date", "Maturity Date", "Report_Date",
      "Source_Filepath", "Yield">>

FundRows ==
    << <<Text("Annual"), Text("2024-01-01"), Text("2029-01-01"),
         Text("2024-02-01"), Text("PKFRV/x.csv"), Num(7, "7")>>,
       <<Num(2, "2"), Text("2023-06-30"), Text("2026-06-30"),
         Text("N/A"), Text("PKFRV/y.xlsx"), Num(0, "0")>>,
       <<Text("100%"), Text("2022-03-31"), NULL,
         Text("N/A"), Text("PKFRV/y.xlsx"), Num(0, "0")>> >>

\* The tables holding the first n <= MaxTableRows of the rows
TablesOf(cols, pool) ==
    { [exists |-> TRUE, cols |-> cols,
       rows |-> SubSeq(pool, 1, IF n < Len(pool) THEN n ELSE Len(pool))] :
      n \in 0..MaxTableRows }

\* (report type, the table its configuration names)
StoredTables ==
    ({"PKRV"} \X TablesOf(TENOR_RATES_COLUMNS, TenorRows))
    \cup ({"pkrv"} \X {[exists |-> TRUE, cols |-> TENOR_RATES_COLUMNS, rows |-> << >>]})
    \cup ({"PKFRV"} \X (TablesOf(MUTUAL_FUND_COLUMNS, FundRows) \cup {NoTable}))
    \cup ({"PKISRV"} \X {NoTable})

DrawValues   == {ABSENT, "7", "x"}
StartValues  == {ABSENT, "1", "2", "x"}
LengthValues == {ABSENT, "0", "1", "-1", "ten"}
SearchValues == {ABSENT, " ", "a", "%"}
ColumnValues == {ABSENT, "1", "5", "-1", "-6", "x"}
DirValues    == {ABSENT, "desc", "sideways"}

InitQuery ==
    /\ \E p \in StoredTables : rtype = p[1] /\ table = p[2]
    /\ req = NoReq /\ resp = NoResp
    /\ HeaderIdle /\ ResolverIdle /\ IngestIdle /\ DownloadIdle /\ ScraperIdle

\* POST /api/data/{report_type}
Query ==
    /\ req = NoReq
    /\ \E draw \in DrawValues, start \in StartValues, length \in LengthValues,
          search \in SearchValues, column \in ColumnValues, dir \in DirValues :
        /\ req' = [draw |-> draw, start |-> start, length |-> length,
                   search |-> search, column |-> column, dir |-> dir]
        /\ resp' = get_report_data_api(table, rtype, req')
    /\ UNCHANGED <<table, rtype, headerVars, resolverVars, ingestVars, downloadVars, scraperVars>>

NextQuery == Query

SpecQuery == InitQuery /\ [][NextQuery]_vars

Asked == req # NoReq

\* the display columns of the table the request reads
DisplayCols == get_display_columns(table.cols, get_table_config(rtype).fixed_order)

SearchGiven == req.search # ABSENT /\ strip(req.search) # ""

\* C6: every answer has recordsFiltered <= recordsTotal, and an empty or
\* blank search string makes them equal.
C6_FilteredAtMostTotal ==
    (Asked /\ resp.status = 200) =>
        /\ resp.recordsFiltered <= resp.recordsTotal
        /\ resp.recordsTotal = Len(table.rows)
        /\ ~SearchGiven => resp.recordsFiltered = resp.recordsTotal

\* A search that keeps one row of two.
C6_Witness ==
    /\ Asked /\ resp.status = 200
    /\ req.search = "a"
    /\ resp.recordsTotal = 2 /\ resp.recordsFiltered = 1

\* the parameters a claim leaves aside are well-formed
DrawFine   == req.draw = ABSENT \/ int(req.draw).ok
LengthFine == req.length = ABSENT \/ int(req.length).ok
StartFine  == req.start = ABSENT \/ int(req.start).ok
DirFine    == req.dir = ABSENT \/ lower(req.dir) \in {"asc", "desc"}
ColumnFine == req.column = ABSENT
              \/ (int(req.column).ok /\ int(req.column).val \in 0..(Len(DisplayCols) - 1))

\* C7: a request whose start is at or past the number of rows of the table
\* is answered normally with an empty page, whatever the table content, the
\* page length and the search string.
C7_StartPastEndIsEmpty ==
    (/\ Asked /\ table.exists
     /\ DrawFine /\ LengthFine /\ DirFine /\ ColumnFine
     /\ req.start # ABSENT /\ int(req.start).ok
     /\ int(req.start).val >= Len(table.rows))
    => (resp.status = 200 /\ resp.data = << >>)

\* start = 2 on a table of two rows with no limit (length -1): empty page.
C7_Witness ==
    /\ Asked /\ resp.status = 200
    /\ Len(table.rows) = 2 /\ req.start = "2" /\ req.length = "-1"
    /\ resp.recordsFiltered = 2 /\ resp.data = << >>

\* C8: a sort column index that is no position of the resolved display
\* columns (too large or negative) sorts by the first of them and does not
\* fail, whenever a display column resolves.
C8_BadIndexSortsByFirst ==
    (/\ Asked /\ DisplayCols # << >>
     /\ DrawFine /\ StartFine /\ LengthFine /\ DirFine
     /\ req.column # ABSENT /\ int(req.column).ok
     /\ int(req.column).val \notin 0..(Len(DisplayCols) - 1))
    => (resp.status = 200 /\ resp.sort_column = DisplayCols[1])

\* C9: on a table with 5 resolved display columns an out-of-range sort
\* column index sorts by display column 0, ascending, without error (stated
\* for the requests that ask for the ascending direction or for none).
C9_FiveColumnsFallBack ==
    (/\ Asked /\ Len(DisplayCols) = 5
     /\ DrawFine /\ StartFine /\ LengthFine
     /\ req.dir = ABSENT
     /\ req.column # ABSENT /\ int(req.column).ok
     /\ int(req.column).val \notin 0..4)
    => (/\ resp.status = 200
        /\ resp.sort_column = DisplayCols[1]
        /\ resp.order_dir = "ASC")

\* C10: whatever the draw, start, length, sort column index and direction,
\* the request is answered normally unless the table has no resolvable
\* display column.
C10_NeverFailsOnParameters ==
    (Asked /\ get_table_config(rtype).ok /\ DisplayCols # << >>)
    => resp.status = 200

\* C11: a query-time error of the data API (an unknown format id, a table
\* without the source-filepath column, no resolvable sort column) is
\* answered with a client error (4xx), never with a server error.
C11_QueryErrorsAreClientErrors ==
    (/\ Asked
     /\ DrawFine /\ StartFine /\ LengthFine /\ DirFine
     /\ req.column = ABSENT \/ int(req.column).ok
     /\ \/ ~get_table_config(rtype).ok
        \/ find_source_filepath_col(table.cols) = ""
        \/ DisplayCols = << >>)
    => resp.status \in 400..499

(***************************************************************************)
(* app.py / viewer_app.py download_file                                    *)
(***************************************************************************)
FILES_BASE_DIRECTORY == "."

\* The segments of a path between its "/" separators
RECURSIVE SplitFrom(_, _, _)
SplitFrom(p, i, cur) ==
    IF i > Len(p) THEN <<cur>>
    ELSE IF Ch(p, i) = "/" THEN <<cur>> \o SplitFrom(p, i + 1, "")
    ELSE SplitFrom(p, i + 1, cur \o Ch(p, i))

split(p) == SplitFrom(p, 1, "")

isabs(p) == p # "" /\ Ch(p, 1) = "/"

\* os.path.join(a, b): an absolute b discards a
join(a, b) ==
    IF isabs(b) THEN b
    ELSE IF a = "" \/ Ch(a, Len(a)) = "/" THEN a \o b
    ELSE a \o "/" \o b

\* The directories of the file system: the proper prefixes of its files
IsFile(fs, node) == node \in fs
IsDir(fs, node) ==
    \E f \in fs : Len(f) > Len(node) /\ SubSeq(f, 1, Len(node)) = node

\* Path resolution by the operating system: every step is taken from a
\* directory; ok = FALSE is ENOENT / ENOTDIR
RECURSIVE walk(_, _, _, _)
walk(fs, node, segs, i) ==
    IF i > Len(segs) THEN [ok |-> IsFile(fs, node) \/ IsDir(fs, node), node |-> node]
    ELSE IF segs[i] = "" THEN walk(fs, node, segs, i + 1)
    ELSE IF ~IsDir(fs, node) THEN [ok |-> FALSE, node |-> << >>]
    ELSE IF segs[i] = "." THEN walk(fs, node, segs, i + 1)
    ELSE IF segs[i] = ".."
         THEN walk(fs, IF node = << >> THEN node ELSE SubSeq(node, 1, Len(node) - 1),
                   segs, i + 1)
    ELSE walk(fs, Append(node, segs[i]), segs, i + 1)

\* The node a path names for a process whose working directory is cwd
resolve(fs, cwd, p) == walk(fs, IF isabs(p) THEN << >> ELSE cwd, split(p), 1)

\* download_file: 404 unless os.path.exists(full_path); FileResponse sends
\* a regular file and raises on anything else
download_file(fs, cwd, filepath) ==
    LET full_path == join(FILES_BASE_DIRECTORY, filepath)
        r == resolve(fs, cwd, full_path)
    IN  IF ~r.ok THEN [status |-> 404, path |-> << >>]
        ELSE IF IsFile(fs, r.node) THEN [status |-> 200, path |-> r.node]
        ELSE [status |-> 500, path |-> << >>]

\* viewer_app.py holds the same function
viewer_download_file(fs, cwd, filepath) ==
    LET full_path == join(FILES_BASE_DIRECTORY, filepath)
        r == resolve(fs, cwd, full_path)
    IN  IF ~r.ok THEN [status |-> 404, path |-> << >>]
        ELSE IF IsFile(fs, r.node) THEN [status |-> 200, path |-> r.node]
        ELSE [status |-> 500, path |-> << >>]

(***************************************************************************)
(* Specification SpecDownload: one download request to each application    *)
(***************************************************************************)
\* The directory the applications run in, the root of the served files
Root == <<"srv", "app">>

DiskFiles ==
    { <<"srv", "app", "PKRV", "r1.csv">>,
      <<"srv", "app", "PKFRV", "f1.csv">>,
      <<"srv", "app", "financial_data.db">>,
      <<"srv", "secret.txt">>,
      <<"etc", "passwd">> }

WantedPaths ==
    { "PKRV/r1.csv", "PKRV/r2.csv", "PKFRV/f1.csv", "financial_data.db",
      "PKRV", "./PKRV/r1.csv", "none/../PKRV/r1.csv", "PKRV/../PKFRV/f1.csv",
      "../secret.txt", "PKRV/../../secret.txt", "/etc/passwd", "../../etc/passwd" }

InitDownload ==
    /\ HeaderIdle /\ ResolverIdle /\ QueryIdle /\ IngestIdle /\ ScraperIdle
    /\ rtype = ""
    /\ disk \in {d \in SUBSET DiskFiles : <<"srv", "app", "financial_data.db">> \in d}
    /\ wanted \in WantedPaths
    /\ sent = NoAnswer
    /\ sentOld = NoAnswer

Download ==
    /\ sent = NoAnswer
    /\ sent' = download_file(disk, Root, wanted)
    /\ UNCHANGED <<disk, wanted, sentOld, headerVars, resolverVars, queryVars,
                   ingestVars, scraperVars, rtype>>

DownloadOld ==
    /\ sentOld = NoAnswer
    /\ sentOld' = viewer_download_file(disk, Root, wanted)
    /\ UNCHANGED <<disk, wanted, sent, headerVars, resolverVars, queryVars,
                   ingestVars, scraperVars, rtype>>

NextDownload == Download \/ DownloadOld

SpecDownload == InitDownload /\ [][NextDownload]_vars

\* The file a request names when it names a regular file under the root
UnderRoot(node) == Len(node) > Len(Root) /\ SubSeq(node, 1, Len(Root)) = Root

\* C18: a download is answered with the bytes of a file only when the path
\* resolves to an existing regular file under the root directory, and with
\* NotFound (404) in every other case.
C18_ServesOnlyUnderRoot ==
    \A a \in {sent, sentOld} :
        a # NoAnswer =>
            LET r == resolve(disk, Root, wanted)
                inside == ~isabs(wanted) /\ r.ok /\ IsFile(disk, r.node) /\ UnderRoot(r.node)
            IN  IF inside THEN a = [status |-> 200, path |-> r.node]
                ELSE a.status = 404

\* C19: for every live column list and report type the two implementations
\* resolve the same ordered display column list.
C19_SameDisplayOrder ==
    (shown.done /\ shownOld.done) =>
        (shown.ok /\ shownOld.ok /\ shown.cols = shownOld.cols)

\* the rows of the table of which some display column, as text, holds the
\* search string as a substring, letters compared without case
RowsContaining(needle) ==
    {i \in 1..Len(table.rows) :
        \E c \in Range(DisplayCols) :
            LET v == table.rows[i][ColumnIndex(table.cols, c)]
            IN  v.k # "null" /\ Contains(lower(v.s), lower(needle))}

\* C20: for every non-empty search string, % and _ included, recordsFiltered
\* counts exactly the rows of which the text of at least one display column
\* contains the search string as a case-insensitive substring.
C20_SearchIsSubstring ==
    (Asked /\ resp.status = 200 /\ SearchGiven) =>
        resp.recordsFiltered = Cardinality(RowsContaining(strip(req.search)))

\* the length the request asks for: the form's value, 100 when absent
AskedLength == IF req.length = ABSENT THEN 100 ELSE int(req.length).val

\* C21: for every start and length, zero and negative ones included, the
\* page holds at most `length` rows, and is never the whole table when the
\* table has more rows than `length`.
C21_PageIsBounded ==
    (Asked /\ resp.status = 200) =>
        /\ Len(resp.data) <= (IF AskedLength < 0 THEN 0 ELSE AskedLength)
        /\ Len(table.rows) > AskedLength => Len(resp.data) < Len(table.rows)

\* C22: for every file whose header the scan matched at row index i, the
\* full re-read that skips i rows takes that same row as its column header,
\* blank lines above the header included.
C22_RereadTakesMatchedRow ==
    \A j \in 1..idx :
        LET f == all_files[j]
            h == find_header_and_type(f)
        IN  h.type # NoType =>
                LET df == read_data_with_header(f, h.index)
                IN  /\ df.ok
                    /\ df.columns = header_names(read_preview(f).rows[h.index + 1])

\* C23: no row of tenor_rates comes from a file whose extension is not
\* .csv, even when the file's header is the exact PKRV header; the file is
\* skipped and the files after it in the batch are still loaded.
C23_TenorRatesOnlyFromCsv ==
    (pc \in {"phase1", "phase2", "done"}) =>
        /\ \A i \in 1..Len(db.tenor_rates.rows) :
               suffix(db.tenor_rates.rows[i][6].s) = ".csv"
        /\ \A j \in 1..idx :
               LET f  == all_files[j]
                   h  == find_header_and_type(f)
                   df == pkrv_frame(f, h.index, metadata_cache)
               IN  (h.type = "PKRV" /\ suffix(f.path) = ".csv"
                    /\ df.ok /\ ~to_sql_fails(df))
                   => Len(StoredRowsOf(f)) = Len(df.rows)

\* An Excel file with the exact PKRV header came first and left no row; the
\* csv file after it is loaded.
C23_Witness ==
    /\ pc = "done"
    /\ Len(all_files) = 2
    /\ all_files[1].path = "PKRV/r2.xlsx"
    /\ find_header_and_type(all_files[1]).type = "PKRV"
    /\ all_files[2].path = "PKRV/r1.csv"
    /\ Len(db.tenor_rates.rows) = 2
    /\ \A i \in 1..2 : db.tenor_rates.rows[i][6] = Text("PKRV/r1.csv")

\* C24: a run that finds no input file still replaces the store: it ends
\* with an empty tenor_rates table and no mutual_fund_data table, and no row
\* of the store it found is left.
C24_EmptyRunReplacesStore ==
    (pc = "done" /\ all_files = << >>) =>
        /\ db.tenor_rates.exists
        /\ db.tenor_rates.cols = TENOR_RATES_DDL
        /\ db.tenor_rates.rows = << >>
        /\ ~db.mutual_fund_data.exists

\* The run found a store holding rows in both tables and no input file.
C24_Witness ==
    /\ pc = "done" /\ all_files = << >>
    /\ db_before.tenor_rates.rows # << >>
    /\ db_before.mutual_fund_data.rows # << >>
    /\ db.tenor_rates.rows = << >>
    /\ ~db.mutual_fund_data.exists

(***************************************************************************)
(* try2.py: the scraper that fills mufap_reports and downloads the files   *)
(***************************************************************************)
\* get_report_type(title)
get_report_type(report_title) ==
    LET title_upper == upper(report_title)
    IN  IF Contains(title_upper, "PKISRV") THEN "PKISRV"
        ELSE IF Contains(title_upper, "PKRV") THEN "PKRV"
        ELSE IF Contains(title_upper, "PKFRV") THEN "PKFRV"
        ELSE "UNKNOWN"

\* REPORT_FOLDERS.get(report['report_type'], 'UNKNOWN_REPORTS')
report_type_folder(report_type) ==
    IF report_type \in {"PKISRV", "PKRV", "PKFRV"} THEN report_type
    ELSE "UNKNOWN_REPORTS"

\* lines 154-159: where the file of a report is saved
save_path(report) ==
    join(report_type_folder(get_report_type(report.Title)), basename(report.FilePath))

\* SELECT 1 FROM mufap_reports WHERE filepath = ?
report_exists_in_db(rows, filepath) ==
    \E i \in 1..Len(rows) : rows[i].filepath = filepath

\* INSERT INTO mufap_reports: `filepath TEXT UNIQUE` refuses a second row
\* with the filepath (IntegrityError, a sqlite3.Error); error is any other
\* sqlite3.Error.  run stands for the row's timeofadding.
insert_row(rows, report, run, error) ==
    IF error \/ report_exists_in_db(rows, report.FilePath)
    THEN [ok |-> FALSE, rows |-> rows]
    ELSE [ok |-> TRUE,
          rows |-> Append(rows, [filepath    |-> report.FilePath,
                                 title       |-> report.Title,
                                 report_type |-> get_report_type(report.Title),
                                 run         |-> run])]

\* A process_single_report that downloads whenever the report names a file
should_download_any(inserted, filepath) == filepath # ""

\* lines 147-150: the download is tried when insert_report_data returned
\* True and the report has a FilePath
should_download(inserted, filepath) == inserted /\ filepath # ""

\* A coroutine that also gives up the loop between the exists-check and
\* the INSERT
await_points_with_check == {"checked", "getting"}

\* The places where a task awaits, so that the event loop may run another
\* task: the GET of download_file (lines 120-126).  Everything before it,
\* insert_report_data included, is synchronous code.
await_points == {"getting"}

(***************************************************************************)
(* Specification SpecScraper: runs of scrape_mufap_reports                 *)
(***************************************************************************)
MaxReports == 2
MaxRuns == 2

\* the entries the API may list: two files, an entry without FilePath, and
\* a second FilePath with the file name of the first
RawReports ==
    { [FilePath |-> "/files/a.csv",  Title |-> "PKRV 1"],
      [FilePath |-> "/files/b.xlsx", Title |-> "pkfrv 2"],
      [FilePath |-> "",              Title |-> "Notice"],
      [FilePath |-> "/old/a.csv",    Title |-> "Pkrv 4"] }

Responses == SeqsOf(RawReports, 0, MaxReports)

InitScraper ==
    /\ HeaderIdle /\ ResolverIdle /\ QueryIdle /\ IngestIdle /\ DownloadIdle
    /\ rtype = ""
    /\ mufap_reports = << >>
    /\ saved = {}
    /\ reports = << >>
    /\ tasks = << >>
    /\ running = 0
    /\ attempted = {}
    /\ runs = 0

scraperOthers ==
    UNCHANGED <<headerVars, resolverVars, queryVars, ingestVars, downloadVars, rtype>>

RunOver == \A k \in 1..Len(tasks) : tasks[k] = "done"

\* scrape_mufap_reports, lines 174-213: the table is ensured, the API
\* answers, one task per listed report is gathered.  An empty `data` list
\* (or a failed API call) ends the run at once.
Scrape ==
    /\ RunOver
    /\ runs < MaxRuns
    /\ runs' = runs + 1
    /\ \E data \in Responses :
        /\ reports' = data
        /\ tasks' = [k \in 1..Len(data) |-> "new"]
    /\ running' = 0
    /\ UNCHANGED <<mufap_reports, saved, attempted>>
    /\ scraperOthers

\* the loop gives task k its turn
CanRun(k) == running = k \/ (running = 0 /\ tasks[k] \in await_points)

\* the task keeps the loop unless it awaits or has returned
Holder(k, at) == IF at = "done" \/ at \in await_points THEN 0 ELSE k

\* process_single_report up to the exists-check of insert_report_data
\* (lines 139-147, 65-72); tasks start in the order gather() got them
Check(k) ==
    /\ k \in 1..Len(tasks)
    /\ tasks[k] = "new"
    /\ running = 0
    /\ \A j \in 1..(k - 1) : tasks[j] # "new"
    /\ LET filepath == reports[k].FilePath
           at == IF filepath = "" THEN "done"
                 ELSE IF report_exists_in_db(mufap_reports, filepath) THEN "done"
                 ELSE "checked"
       IN  /\ tasks' = [tasks EXCEPT ![k] = at]
           /\ running' = Holder(k, at)
    /\ UNCHANGED <<mufap_reports, saved, reports, attempted, runs>>
    /\ scraperOthers

\* insert_report_data lines 74-85, then process_single_report lines 147-161
\* and download_file up to its GET (lines 114-120)
Insert(k) ==
    /\ k \in 1..Len(tasks)
    /\ tasks[k] = "checked"
    /\ CanRun(k)
    /\ \E error \in BOOLEAN :
        LET report == reports[k]
            r  == insert_row(mufap_reports, report, runs, error)
            at == IF ~should_download(r.ok, report.FilePath) THEN "done"
                  ELSE IF save_path(report) \in saved THEN "done"
                  ELSE "getting"
        IN  /\ mufap_reports' = r.rows
            /\ tasks' = [tasks EXCEPT ![k] = at]
            /\ running' = Holder(k, at)
            /\ attempted' = IF at = "getting"
                            THEN attempted \cup {[run |-> runs, filepath |-> report.FilePath]}
                            ELSE attempted
    /\ UNCHANGED <<saved, reports, runs>>
    /\ scraperOthers

\* download_file lines 120-134: the response arrives; the file exists once
\* aiofiles.open has run, whether or not every chunk was written
Respond(k) ==
    /\ k \in 1..Len(tasks)
    /\ tasks[k] = "getting"
    /\ running = 0
    /\ \E opened \in BOOLEAN :
        saved' = IF opened THEN saved \cup {save_path(reports[k])} ELSE saved
    /\ tasks' = [tasks EXCEPT ![k] = "done"]
    /\ UNCHANGED <<mufap_reports, reports, running, attempted, runs>>
    /\ scraperOthers

NextScraper ==
    \/ Scrape
    \/ \E k \in 1..MaxReports : Check(k)
    \/ \E k \in 1..MaxReports : Insert(k)
    \/ \E k \in 1..MaxReports : Respond(k)

SpecScraper == InitScraper /\ [][NextScraper]_vars

\* C25: after any interleaving of the gathered tasks, and across runs,
\* mufap_reports holds at most one row per filepath, also when the response
\* lists a FilePath twice; between the exists-check and the INSERT of one
\* task no other task runs.
C25_OneRowPerFilepath ==
    /\ \A i, j \in 1..Len(mufap_reports) :
           mufap_reports[i].filepath = mufap_reports[j].filepath => i = j
    /\ \A k \in 1..Len(tasks) : tasks[k] = "checked" => running = k

\* The response of the second run lists twice a FilePath the first run did
\* not see: one row.
C25_Witness ==
    /\ runs = 2 /\ RunOver
    /\ Len(reports) = 2
    /\ reports[1].FilePath = "/files/a.csv" /\ reports[2].FilePath = "/files/a.csv"
    /\ Len(mufap_reports) = 2
    /\ mufap_reports[1].filepath = "/files/b.xlsx"
    /\ mufap_reports[2] = [filepath |-> "/files/a.csv", title |-> "PKRV 1",
                           report_type |-> "PKRV", run |-> 2]

\* C26: every download requested belongs to a row of mufap_reports that the
\* same run inserted, so a FilePath is requested at most once over all
\* runs: a report whose row exists is never downloaded again, also when its
\* file is not on disk.
C26_DownloadOnlyAfterOwnInsert ==
    /\ \A a \in attempted :
           \E i \in 1..Len(mufap_reports) :
               /\ mufap_reports[i].filepath = a.filepath
               /\ mufap_reports[i].run = a.run
    /\ \A a, b \in attempted : a.filepath = b.filepath => a = b
    /\ \A k \in 1..Len(tasks) :
           tasks[k] = "getting" => report_exists_in_db(mufap_reports, reports[k].FilePath)

\* The first run inserted the row and its download failed; the second run
\* listed the report again and ended without requesting the file.
C26_Witness ==
    /\ runs = 2 /\ RunOver
    /\ reports = << [FilePath |-> "/files/a.csv", Title |-> "PKRV 1"] >>
    /\ Len(mufap_reports) = 1 /\ mufap_reports[1].run = 1
    /\ attempted = {[run |-> 1, filepath |-> "/files/a.csv"]}
    /\ saved = {}

====
